---------------------------- MODULE Spec2Model ----------------------------
(***************************************************************************)
(* A model of internal/ai/claude.go: the ClaudeProvider client.            *)
(*                                                                         *)
(* Text (a response body, a content item's text, a JSON payload) is a      *)
(* sequence of characters.  The characters the model distinguishes are     *)
(* the backtick, the two whitespace characters space and newline, the JSON *)
(* punctuation, the digits, a letter, and a few words that are treated as  *)
(* one unit each because nothing in the code looks inside them: the fence  *)
(* tag json, the literal null and the field names of the two wire formats. *)
(***************************************************************************)
EXTENDS Integers, Sequences, FiniteSets

\* the backtick character (a string of the language cannot hold one)
BT == "backtick"
SP == " "
NL == "\n"
QT == "\""
BS == "\\"

\* regexp \s and encoding/json's isSpace, on the model's characters
Ws == {SP, NL}

Digits == {"0", "1", "2", "3", "4", "5", "6", "7", "8", "9"}

DigitVal(d) ==
  CASE d = "0" -> 0 [] d = "1" -> 1 [] d = "2" -> 2 [] d = "3" -> 3
    [] d = "4" -> 4 [] d = "5" -> 5 [] d = "6" -> 6 [] d = "7" -> 7
    [] d = "8" -> 8 [] d = "9" -> 9

DigitOf(n) ==
  CASE n = 0 -> "0" [] n = 1 -> "1" [] n = 2 -> "2" [] n = 3 -> "3"
    [] n = 4 -> "4" [] n = 5 -> "5" [] n = 6 -> "6" [] n = 7 -> "7"
    [] n = 8 -> "8" [] n = 9 -> "9"

MinOf(S) == CHOOSE x \in S : \A y \in S : x <= y

(***************************************************************************)
(* encoding/json: the syntax of a JSON value, as json.Unmarshal checks it  *)
(* before it decodes (checkValid), and the value read.                     *)
(* A value is [t, n, s, kids]: t its kind, n a number's value, s a         *)
(* string's characters, kids an array's elements or an object's members    *)
(* ([k, v], in the order they are written).                                *)
(***************************************************************************)
NullV == [t |-> "null", n |-> 0, s |-> <<>>, kids |-> <<>>]
NumV(n) == [t |-> "num", n |-> n, s |-> <<>>, kids |-> <<>>]
StrV(s) == [t |-> "str", n |-> 0, s |-> s, kids |-> <<>>]
ArrV(kids) == [t |-> "arr", n |-> 0, s |-> <<>>, kids |-> kids]
ObjV(kids) == [t |-> "obj", n |-> 0, s |-> <<>>, kids |-> kids]

Fail == [ok |-> FALSE, val |-> NullV, next |-> 0]
Parsed(v, i) == [ok |-> TRUE, val |-> v, next |-> i]

\* the first position at or after i that holds no whitespace (Len(t)+1: none)
RECURSIVE SkipWs(_, _)
SkipWs(t, i) == IF i <= Len(t) /\ t[i] \in Ws THEN SkipWs(t, i + 1) ELSE i

Unescape(c) == IF c = "n" THEN NL ELSE c

\* the number of backslashes that stand right before position m, none of
\* them before position j
RECURSIVE BackslashRun(_, _, _)
BackslashRun(t, j, m) ==
  IF m > j /\ t[m - 1] = BS THEN 1 + BackslashRun(t, j, m - 1) ELSE 0

\* the characters of t from a to b without the backslashes at starts, each
\* escaped character replaced by what it stands for
RECURSIVE Unescaped(_, _, _, _)
Unescaped(t, starts, a, b) ==
  IF a > b THEN <<>>
  ELSE IF a = b
    THEN IF a \in starts THEN <<>>
         ELSE IF (a - 1) \in starts THEN <<Unescape(t[a])>> ELSE <<t[a]>>
  ELSE LET mid == (a + b) \div 2
       IN Unescaped(t, starts, a, mid) \o Unescaped(t, starts, mid + 1, b)

\* a string's characters from j on, up to its closing quote (the first
\* quote that no backslash escapes): an escape is a backslash and one of
\* quote, backslash, n; a raw newline is a control character, which a JSON
\* string may not hold
ScanString(t, j) ==
  LET quotes == {k \in j..Len(t) : t[k] = QT /\ BackslashRun(t, j, k) % 2 = 0}
  IN IF quotes = {} THEN Fail
     ELSE LET k == MinOf(quotes)
              starts == {m \in j..(k - 1) : t[m] = BS /\ BackslashRun(t, j, m) % 2 = 0}
          IN IF \E m \in j..(k - 1) :
                  \/ t[m] = NL
                  \/ (m - 1) \in starts /\ t[m] \notin {QT, BS, "n"}
             THEN Fail
             ELSE Parsed(StrV(Unescaped(t, starts, j, k - 1)), k + 1)

\* the end (exclusive) of the run of digits that starts at i
RECURSIVE DigitsEnd(_, _)
DigitsEnd(t, i) == IF i <= Len(t) /\ t[i] \in Digits THEN DigitsEnd(t, i + 1) ELSE i

RECURSIVE DigitsValue(_, _, _, _)
DigitsValue(t, i, e, acc) ==
  IF i >= e THEN acc ELSE DigitsValue(t, i + 1, e, acc * 10 + DigitVal(t[i]))

\* -? (0 | [1-9][0-9]*): a leading zero ends the number
ParseNumber(t, i) ==
  LET neg == t[i] = "-"
      s == IF neg THEN i + 1 ELSE i
  IN IF s > Len(t) \/ t[s] \notin Digits THEN Fail
     ELSE IF t[s] = "0" THEN Parsed(NumV(0), s + 1)
     ELSE LET e == DigitsEnd(t, s)
              v == DigitsValue(t, s, e, 0)
          IN Parsed(NumV(IF neg THEN 0 - v ELSE v), e)

RECURSIVE ParseValue(_, _)
RECURSIVE ParseMembers(_, _, _)
RECURSIVE AfterKey(_, _, _)
RECURSIVE AfterColon(_, _, _, _)
RECURSIVE AfterMember(_, _, _, _)
RECURSIVE MoreMembers(_, _, _)
RECURSIVE ParseElements(_, _, _)
RECURSIVE AfterElement(_, _, _)
RECURSIVE MoreElements(_, _, _)

\* the value that starts at i0, after whitespace
ParseValue(t, i0) ==
  LET i == SkipWs(t, i0)
  IN IF i > Len(t) THEN Fail
     ELSE IF t[i] = "{"
       THEN LET j == SkipWs(t, i + 1)
            IN IF j <= Len(t) /\ t[j] = "}" THEN Parsed(ObjV(<<>>), j + 1)
               ELSE ParseMembers(t, j, <<>>)
     ELSE IF t[i] = "["
       THEN LET j == SkipWs(t, i + 1)
            IN IF j <= Len(t) /\ t[j] = "]" THEN Parsed(ArrV(<<>>), j + 1)
               ELSE ParseElements(t, j, <<>>)
     ELSE IF t[i] = QT THEN ScanString(t, i + 1)
     ELSE IF t[i] = "-" \/ t[i] \in Digits THEN ParseNumber(t, i)
     ELSE IF t[i] = "null" THEN Parsed(NullV, i + 1)
     ELSE Fail

\* an object's members from i on, acc the members read so far: "key" :
\* value, then a comma and another member, or the closing brace
ParseMembers(t, i, acc) ==
  IF i > Len(t) \/ t[i] # QT THEN Fail ELSE AfterKey(t, acc, ScanString(t, i + 1))

AfterKey(t, acc, k) ==
  IF ~k.ok THEN Fail ELSE AfterColon(t, acc, k.val.s, SkipWs(t, k.next))

AfterColon(t, acc, key, c) ==
  IF c > Len(t) \/ t[c] # ":" THEN Fail
  ELSE AfterMember(t, acc, key, ParseValue(t, c + 1))

AfterMember(t, acc, key, v) ==
  IF ~v.ok THEN Fail
  ELSE MoreMembers(t, Append(acc, [k |-> key, v |-> v.val]), SkipWs(t, v.next))

MoreMembers(t, acc, d) ==
  IF d > Len(t) THEN Fail
  ELSE IF t[d] = "}" THEN Parsed(ObjV(acc), d + 1)
  ELSE IF t[d] = "," THEN ParseMembers(t, SkipWs(t, d + 1), acc)
  ELSE Fail

\* an array's elements from i on, acc the elements read so far
ParseElements(t, i, acc) == AfterElement(t, acc, ParseValue(t, i))

AfterElement(t, acc, v) ==
  IF ~v.ok THEN Fail ELSE MoreElements(t, Append(acc, v.val), SkipWs(t, v.next))

MoreElements(t, acc, d) ==
  IF d > Len(t) THEN Fail
  ELSE IF t[d] = "]" THEN Parsed(ArrV(acc), d + 1)
  ELSE IF t[d] = "," THEN ParseElements(t, d + 1, acc)
  ELSE Fail

\* one JSON value and nothing but whitespace around it
WholeText(t, r) == IF r.ok /\ SkipWs(t, r.next) > Len(t) THEN r ELSE Fail

ParseJSON(t) == WholeText(t, ParseValue(t, 1))

(***************************************************************************)
(* regexp: "```json\\s*([\\s\\S]*?)\\s*```" and FindStringSubmatch.          *)
(* The leftmost match starts at the first ```json that a ``` follows.      *)
(* \s* after the tag is greedy and takes the whole run of whitespace (no   *)
(* closing fence can start inside it); the group is lazy, so it ends where *)
(* the first ``` at or after it, with the whitespace before that ```, can  *)
(* still be matched.                                                       *)
(***************************************************************************)
IsFenceAt(t, i) ==
  i + 2 <= Len(t) /\ t[i] = BT /\ t[i + 1] = BT /\ t[i + 2] = BT

IsTagAt(t, i) == IsFenceAt(t, i) /\ i + 3 <= Len(t) /\ t[i + 3] = "json"

NoMatch == [found |-> FALSE, group |-> <<>>]

FindStringSubmatch(t) ==
  LET tags == {i \in 1..Len(t) : IsTagAt(t, i)}
  IN IF tags = {} THEN NoMatch
     ELSE LET i == MinOf(tags)
              p == SkipWs(t, i + 4)
              closes == {q \in p..Len(t) : IsFenceAt(t, q)}
          IN IF closes = {} THEN NoMatch
             ELSE LET q == MinOf(closes)
                      e == MinOf({k \in p..q : \A j \in k..(q - 1) : t[j] \in Ws})
                  IN [found |-> TRUE, group |-> SubSeq(t, p, e - 1)]

(***************************************************************************)
(* json.Unmarshal into a struct.  The text must be valid JSON; the value   *)
(* must be an object or null (null leaves the struct as it is); a member   *)
(* whose key is no field is skipped; a later member with the same key      *)
(* overrides an earlier one; null leaves a string or a number as it is and *)
(* makes a slice or a pointer nil; a value of another kind than the        *)
(* field's is an UnmarshalTypeError, which Unmarshal returns.              *)
(***************************************************************************)

\* VerificationResult: matchPercentage, matchedItems, unmatchedItems, notes
ZeroResult ==
  [matchPercentage |-> 0, matchedItems |-> <<>>, unmatchedItems |-> <<>>,
   notes |-> <<>>]

\* a []string: each element a string, or null for the empty string
RECURSIVE DecodeStrings(_, _, _)
DecodeStrings(kids, i, acc) ==
  IF i > Len(kids) THEN [ok |-> TRUE, val |-> acc]
  ELSE IF kids[i].t = "str" THEN DecodeStrings(kids, i + 1, Append(acc, kids[i].s))
  ELSE IF kids[i].t = "null" THEN DecodeStrings(kids, i + 1, Append(acc, <<>>))
  ELSE [ok |-> FALSE, val |-> <<>>]

DecodeStringSlice(v) ==
  IF v.t = "null" THEN [ok |-> TRUE, val |-> <<>>]
  ELSE IF v.t = "arr" THEN DecodeStrings(v.kids, 1, <<>>)
  ELSE [ok |-> FALSE, val |-> <<>>]

\* one member of the payload object, decoded into the result so far
DecodeResultField(r, m) ==
  IF m.k = <<"matchPercentage">>
    THEN IF m.v.t = "num" THEN [ok |-> TRUE, val |-> [r EXCEPT !.matchPercentage = m.v.n]]
         ELSE [ok |-> m.v.t = "null", val |-> r]
  ELSE IF m.k = <<"matchedItems">>
    THEN LET d == DecodeStringSlice(m.v)
         IN [ok |-> d.ok, val |-> IF d.ok THEN [r EXCEPT !.matchedItems = d.val] ELSE r]
  ELSE IF m.k = <<"unmatchedItems">>
    THEN LET d == DecodeStringSlice(m.v)
         IN [ok |-> d.ok, val |-> IF d.ok THEN [r EXCEPT !.unmatchedItems = d.val] ELSE r]
  ELSE IF m.k = <<"notes">>
    THEN IF m.v.t = "str" THEN [ok |-> TRUE, val |-> [r EXCEPT !.notes = m.v.s]]
         ELSE [ok |-> m.v.t = "null", val |-> r]
  ELSE [ok |-> TRUE, val |-> r]

RECURSIVE DecodeResultMembers(_, _, _, _)
DecodeResultMembers(kids, i, r, ok) ==
  IF i > Len(kids) THEN [ok |-> ok, val |-> r]
  ELSE LET d == DecodeResultField(r, kids[i])
       IN DecodeResultMembers(kids, i + 1, d.val, ok /\ d.ok)

\* the parsed payload, decoded into a zero VerificationResult
DecodeResult(p) ==
  IF ~p.ok THEN [ok |-> FALSE, val |-> ZeroResult]
  ELSE IF p.val.t = "null" THEN [ok |-> TRUE, val |-> ZeroResult]
  ELSE IF p.val.t = "obj" THEN DecodeResultMembers(p.val.kids, 1, ZeroResult, TRUE)
  ELSE [ok |-> FALSE, val |-> ZeroResult]

\* json.Unmarshal([]byte(jsonStr), &result)
UnmarshalResult(t) == DecodeResult(ParseJSON(t))

\* claudeResponse: Content []struct{Type, Text}, Error *struct{Type, Message}
ZeroItem == [type |-> <<>>, text |-> <<>>]
NilError == [set |-> FALSE, type |-> <<>>, message |-> <<>>]
ZeroResponse == [content |-> <<>>, error |-> NilError]

\* the string members named ka and kb of an object, into the fields a and b
RECURSIVE DecodeTwoStrings(_, _, _, _, _, _, _)
DecodeTwoStrings(kids, i, ka, kb, a, b, ok) ==
  IF i > Len(kids) THEN [ok |-> ok, a |-> a, b |-> b]
  ELSE LET m == kids[i]
           hit == m.k = <<ka>> \/ m.k = <<kb>>
           str == m.v.t = "str"
       IN DecodeTwoStrings(kids, i + 1, ka, kb,
            IF m.k = <<ka>> /\ str THEN m.v.s ELSE a,
            IF m.k = <<kb>> /\ str THEN m.v.s ELSE b,
            ok /\ (hit => m.v.t \in {"str", "null"}))

RECURSIVE DecodeContent(_, _, _, _)
DecodeContent(kids, i, acc, ok) ==
  IF i > Len(kids) THEN [ok |-> ok, val |-> acc]
  ELSE IF kids[i].t = "obj"
    THEN LET d == DecodeTwoStrings(kids[i].kids, 1, "type", "text", <<>>, <<>>, TRUE)
         IN DecodeContent(kids, i + 1, Append(acc, [type |-> d.a, text |-> d.b]),
                          ok /\ d.ok)
  ELSE DecodeContent(kids, i + 1, Append(acc, ZeroItem), ok /\ kids[i].t = "null")

DecodeResponseField(r, m) ==
  IF m.k = <<"content">>
    THEN IF m.v.t = "arr"
         THEN LET d == DecodeContent(m.v.kids, 1, <<>>, TRUE)
              IN [ok |-> d.ok, val |-> [r EXCEPT !.content = d.val]]
         ELSE IF m.v.t = "null" THEN [ok |-> TRUE, val |-> [r EXCEPT !.content = <<>>]]
         ELSE [ok |-> FALSE, val |-> r]
  ELSE IF m.k = <<"error">>
    THEN IF m.v.t = "obj"
         THEN LET d == DecodeTwoStrings(m.v.kids, 1, "type", "message",
                                        r.error.type, r.error.message, TRUE)
              IN [ok |-> d.ok,
                  val |-> [r EXCEPT !.error = [set |-> TRUE, type |-> d.a, message |-> d.b]]]
         ELSE IF m.v.t = "null" THEN [ok |-> TRUE, val |-> [r EXCEPT !.error = NilError]]
         ELSE [ok |-> FALSE, val |-> r]
  ELSE [ok |-> TRUE, val |-> r]

RECURSIVE DecodeResponseMembers(_, _, _, _)
DecodeResponseMembers(kids, i, r, ok) ==
  IF i > Len(kids) THEN [ok |-> ok, val |-> r]
  ELSE LET d == DecodeResponseField(r, kids[i])
       IN DecodeResponseMembers(kids, i + 1, d.val, ok /\ d.ok)

\* the parsed body, decoded into a zero claudeResponse
DecodeResponse(p) ==
  IF ~p.ok THEN [ok |-> FALSE, val |-> ZeroResponse]
  ELSE IF p.val.t = "null" THEN [ok |-> TRUE, val |-> ZeroResponse]
  ELSE IF p.val.t = "obj" THEN DecodeResponseMembers(p.val.kids, 1, ZeroResponse, TRUE)
  ELSE [ok |-> FALSE, val |-> ZeroResponse]

\* json.Unmarshal(body, &claudeResp)
UnmarshalResponse(t) == DecodeResponse(ParseJSON(t))

(***************************************************************************)
(* Errors.  fmt.Errorf's message is kept as its parts: kind names the      *)
(* format string, status is its %d, text its %s, and cause what %w wraps   *)
(* (errors.Is finds it).                                                   *)
(***************************************************************************)
NoErr == [kind |-> "nil", status |-> 0, text |-> <<>>, cause |-> "none"]
Errorf(kind, status, text, cause) ==
  [kind |-> kind, status |-> status, text |-> text, cause |-> cause]

\* a (*T, error) pair: result holds the value pointed to, or nothing for nil
Return(result, err) == [result |-> result, err |-> err]

(***************************************************************************)
(* NewClaudeProvider, Name                                                 *)
(***************************************************************************)
DefaultModel == "claude-sonnet-4-20250514"
NoProvider == [set |-> FALSE, apiKey |-> "", model |-> ""]

\* a constructor that does not check the key
NewClaudeProviderUnchecked(apiKey) ==
  [p |-> [set |-> TRUE, apiKey |-> apiKey, model |-> DefaultModel], err |-> NoErr]

NewClaudeProvider(apiKey) ==
  IF apiKey = ""
  THEN [p |-> NoProvider, err |-> Errorf("API key is required", 0, <<>>, "none")]
  ELSE [p |-> [set |-> TRUE, apiKey |-> apiKey, model |-> DefaultModel],
        err |-> NoErr]

Name(p) == "claude"

(***************************************************************************)
(* parseVerificationResult                                                 *)
(***************************************************************************)
\* line 164 to 170: the payload is the group of the match, or the whole text
PayloadOf(text, matches) == IF matches.found THEN matches.group ELSE text

ExtractJSON(text) == PayloadOf(text, FindStringSubmatch(text))

\* a parse that hands out what was decoded before the error
ResultOrErrorPartial(u) ==
  Return(<<u.val>>,
         IF ~u.ok THEN Errorf("failed to parse verification result", 0, <<>>, "json")
         ELSE NoErr)

\* line 172 to 177: u is what json.Unmarshal made of the payload
ResultOrError(u) ==
  IF ~u.ok
  THEN Return(<<>>, Errorf("failed to parse verification result", 0, <<>>, "json"))
  ELSE Return(<<u.val>>, NoErr)

parseVerificationResult(text) == ResultOrError(UnmarshalResult(ExtractJSON(text)))

(***************************************************************************)
(* Verify, from the status check on (line 101 to 118): what it returns for *)
(* a response with this status and this body, and the text it hands to     *)
(* parseVerificationResult, if it gets there.                              *)
(***************************************************************************)
StatusOK == 200

Outcome(ret, extracted) == [ret |-> ret, extracted |-> extracted]

Fails(err) == Outcome(Return(<<>>, err), <<>>)

\* line 118
Extract(text) == Outcome(parseVerificationResult(text), <<text>>)

\* the content items looked at before the error field
HandleEnvelopeContentFirst(u) ==
  IF ~u.ok THEN Fails(Errorf("failed to parse response", 0, <<>>, "json"))
  ELSE IF Len(u.val.content) = 0
    THEN Fails(Errorf("empty response from API", 0, <<>>, "none"))
  ELSE IF u.val.error.set THEN Fails(Errorf("API error", 0, u.val.error.message, "none"))
  ELSE Extract(u.val.content[1].text)

\* no check for an empty content list: the first item's text is taken to
\* be empty
HandleEnvelopeNoEmptyCheck(u) ==
  IF ~u.ok THEN Fails(Errorf("failed to parse response", 0, <<>>, "json"))
  ELSE IF u.val.error.set THEN Fails(Errorf("API error", 0, u.val.error.message, "none"))
  ELSE Extract(IF Len(u.val.content) = 0 THEN <<>> ELSE u.val.content[1].text)

\* line 106 to 118: u is what json.Unmarshal made of the body
HandleEnvelope(u) ==
  IF ~u.ok THEN Fails(Errorf("failed to parse response", 0, <<>>, "json"))
  ELSE IF u.val.error.set THEN Fails(Errorf("API error", 0, u.val.error.message, "none"))
  ELSE IF Len(u.val.content) = 0
    THEN Fails(Errorf("empty response from API", 0, <<>>, "none"))
  ELSE Extract(u.val.content[1].text)

\* the status compared the wrong way round
HandleResponseInverted(status, body) ==
  IF status = StatusOK
  THEN Fails(Errorf("API error (status)", status, body, "none"))
  ELSE HandleEnvelope(UnmarshalResponse(body))

\* the body parsed before the status is looked at
StatusAfterParse(status, body, o) ==
  IF o.ret.err.kind = "failed to parse response" \/ status = StatusOK THEN o
  ELSE Fails(Errorf("API error (status)", status, body, "none"))

HandleResponseParseFirst(status, body) ==
  StatusAfterParse(status, body, HandleEnvelope(UnmarshalResponse(body)))

\* line 101 to 118
HandleResponse(status, body) ==
  IF status # StatusOK
  THEN Fails(Errorf("API error (status)", status, body, "none"))
  ELSE HandleEnvelope(UnmarshalResponse(body))

(***************************************************************************)
(* What the remote side may send.  A result is written as the JSON object  *)
(* the prompt asks for, on one line or spread over lines, and the text of  *)
(* a content item is that payload bare, fenced, or fenced with prose       *)
(* around it.  A body is the response envelope, with the text escaped as a *)
(* JSON string.                                                            *)
(***************************************************************************)
EscapeChar(c) ==
  IF c \in {QT, BS} THEN <<BS, c>> ELSE IF c = NL THEN <<BS, "n">> ELSE <<c>>

\* s written inside a JSON string
RECURSIVE Escape(_)
Escape(s) ==
  IF s = <<>> THEN <<>>
  ELSE IF Len(s) = 1 THEN EscapeChar(s[1])
  ELSE LET mid == Len(s) \div 2
       IN Escape(SubSeq(s, 1, mid)) \o Escape(SubSeq(s, mid + 1, Len(s)))

EncString(s) == <<QT>> \o Escape(s) \o <<QT>>

RECURSIVE EncNat(_)
EncNat(n) == IF n < 10 THEN <<DigitOf(n)>> ELSE EncNat(n \div 10) \o <<DigitOf(n % 10)>>

EncInt(n) == IF n < 0 THEN <<"-">> \o EncNat(0 - n) ELSE EncNat(n)

RECURSIVE EncStrings(_)
EncStrings(xs) ==
  IF xs = <<>> THEN <<>>
  ELSE EncString(Head(xs)) \o (IF Len(xs) > 1 THEN <<",">> ELSE <<>>) \o EncStrings(Tail(xs))

EncKey(k) == <<QT, k, QT, ":">>

\* sep is what follows the opening brace and each comma, end what precedes
\* the closing brace
EncodeResult(r, pretty) ==
  LET sep == IF pretty THEN <<NL, SP>> ELSE <<>>
      end == IF pretty THEN <<NL>> ELSE <<>>
  IN <<"{">> \o sep \o EncKey("matchPercentage") \o EncInt(r.matchPercentage)
     \o <<",">> \o sep \o EncKey("matchedItems") \o <<"[">> \o EncStrings(r.matchedItems) \o <<"]">>
     \o <<",">> \o sep \o EncKey("unmatchedItems") \o <<"[">> \o EncStrings(r.unmatchedItems) \o <<"]">>
     \o <<",">> \o sep \o EncKey("notes") \o EncString(r.notes)
     \o end \o <<"}">>

Fence == <<BT, BT, BT>>

Wraps == {"bare", "fenced", "fenced tight", "fenced in prose", "padded", "untagged fence"}

Wrap(w, payload) ==
  CASE w = "bare" -> payload
    [] w = "fenced" -> Fence \o <<"json", NL>> \o payload \o <<NL>> \o Fence
    [] w = "fenced tight" -> Fence \o <<"json">> \o payload \o Fence
    [] w = "fenced in prose" ->
         <<"a", SP>> \o Fence \o <<"json", NL>> \o payload \o <<NL>> \o Fence \o <<NL, "a">>
    [] w = "padded" -> <<NL, SP>> \o payload \o <<NL>>
    [] w = "untagged fence" -> Fence \o <<NL>> \o payload \o <<NL>> \o Fence

EncItem(text) ==
  <<"{">> \o EncKey("type") \o EncString(<<"text">>) \o <<",">>
          \o EncKey("text") \o EncString(text) \o <<"}">>

RECURSIVE EncItems(_)
EncItems(texts) ==
  IF texts = <<>> THEN <<>>
  ELSE EncItem(Head(texts)) \o (IF Len(texts) > 1 THEN <<",">> ELSE <<>>) \o EncItems(Tail(texts))

\* errs: no message, or the one message of the error field
EncodeEnvelope(texts, errs) ==
  <<"{">> \o EncKey("content") \o <<"[">> \o EncItems(texts) \o <<"]">>
  \o (IF errs = <<>> THEN <<>>
      ELSE <<",">> \o EncKey("error") \o <<"{">> \o EncKey("type") \o EncString(<<"error">>)
           \o <<",">> \o EncKey("message") \o EncString(errs[1]) \o <<"}">>)
  \o <<"}">>

\* the results the remote side may report: a percentage (150 is outside
\* 0..100), up to MaxItems items in each list, notes
MaxItems == 2

ItemPool == <<<<"a">>, <<"a", QT>>, <<"a", SP, "a">>, <<BS>>>>

Matched(n) == [i \in 1..n |-> ItemPool[i]]
Unmatched(n) == [i \in 1..n |-> ItemPool[Len(ItemPool) + 1 - i]]

NotesPool ==
  {<<"a", SP, "a">>, <<"a", NL, QT>>, Fence,
   Fence \o <<"json", SP, "a", SP>> \o Fence}

Results ==
  {[matchPercentage |-> pct, matchedItems |-> Matched(m),
    unmatchedItems |-> Unmatched(u), notes |-> n] :
     pct \in {0, 80, 150}, m \in 0..MaxItems, u \in 0..MaxItems, n \in NotesPool}

\* what was written into the first content item: a result, how, and in
\* which wrapping
Wrote(r, pretty, w) == [r |-> r, pretty |-> pretty, wrap |-> w]
TextOf(wr) == Wrap(wr.wrap, EncodeResult(wr.r, wr.pretty))

\* a reply is a body, with what was written into its first content item
\* when that is a result
Reply(body, wrote) == [body |-> body, wrote |-> wrote]

ResultReplies ==
  {Reply(EncodeEnvelope(<<TextOf(Wrote(r, pretty, w))>>, <<>>), <<Wrote(r, pretty, w)>>) :
     r \in Results, pretty \in BOOLEAN, w \in Wraps}

Sample == [matchPercentage |-> 80, matchedItems |-> Matched(1),
           unmatchedItems |-> <<>>, notes |-> <<"a", SP, "a">>]
SampleText == TextOf(Wrote(Sample, TRUE, "fenced"))
Messages == {<<"rate", SP, "limited">>, <<>>}

\* payloads that are no result: nothing, prose, a payload cut short, a
\* number, null, an object with a field of the wrong kind
OtherTexts ==
  {<<>>, <<"a", SP, "a">>, <<"8", "0">>, <<"null">>,
   SubSeq(SampleText, 1, Len(SampleText) - 5),
   <<"{", QT, "notes", QT, ":", "8", "}">>,
   Fence \o <<"json", NL, "{", "}", NL>> \o Fence}

OtherReplies ==
  {Reply(EncodeEnvelope(<<t>>, <<>>), <<>>) : t \in OtherTexts}
  \cup {Reply(EncodeEnvelope(texts, <<m>>), <<>>) :
          texts \in {<<>>, <<SampleText>>}, m \in Messages}
  \cup {Reply(EncodeEnvelope(<<<<"a">>, SampleText>>, <<>>), <<>>),
        Reply(EncodeEnvelope(<<>>, <<>>), <<>>),
        Reply(<<"{", "}">>, <<>>),
        Reply(<<"{", QT, "content", QT, ":", "null", ",", QT, "error", QT, ":", "null", "}">>, <<>>),
        Reply(<<"null">>, <<>>),
        Reply(<<QT, "oops", QT>>, <<>>),
        Reply(<<"{", QT, "content", QT, ":", "8", "}">>, <<>>),
        Reply(<<"a", SP, "a">>, <<>>),
        Reply(<<>>, <<>>)}

AllReplies == ResultReplies \cup OtherReplies
AllStatuses == {200, 201, 204, 404, 500}

\* the few replies and statuses of the specification with concurrent calls
BasicReplies ==
  {Reply(EncodeEnvelope(<<SampleText>>, <<>>), <<Wrote(Sample, TRUE, "fenced")>>),
   Reply(EncodeEnvelope(<<>>, <<<<"rate", SP, "limited">>>>), <<>>),
   Reply(<<QT, "oops", QT>>, <<>>)}
BasicStatuses == {200, 500}

(***************************************************************************)
(* The state.                                                              *)
(*   provider  the client instance, once NewClaudeProvider has returned one *)
(*   lastNew   the last call of NewClaudeProvider: its argument and what    *)
(*             it returned                                                  *)
(*   nameRet   what the last call of Name returned                          *)
(*   calls     the Verify calls on the instance, each with                  *)
(*     pc        where it is: not called yet (idle), in client.Do, in       *)
(*               io.ReadAll, returned (done)                                *)
(*     ctx       the caller's context: nil, live or canceled                *)
(*     req       the request built (line 80 to 87)                          *)
(*     sent      how many times client.Do was called                        *)
(*     onWire    the transport has put the request on the wire              *)
(*     hdrIn, bodyIn  the response headers, the body have reached the       *)
(*               transport, while the call is not done                      *)
(*     status, body   resp.StatusCode, and the bytes io.ReadAll returned    *)
(*     read      io.ReadAll returned the body                               *)
(*     extracted the text handed to parseVerificationResult, if any         *)
(*     ret       what Verify returned                                       *)
(*     wrote     the result the remote side wrote into the body, if any     *)
(***************************************************************************)
VARIABLES provider, lastNew, nameRet, calls

vars == <<provider, lastNew, nameRet, calls>>

NumCalls == 2
Keys == {"", " ", "sk-ant-1"}
MaxTokens == 2000

NoReq == [set |-> FALSE, model |-> "", apiKey |-> "", maxTokens |-> 0, ctx |-> FALSE]

IdleCall ==
  [pc |-> "idle", ctx |-> "none", req |-> NoReq, sent |-> 0, onWire |-> FALSE,
   hdrIn |-> FALSE, bodyIn |-> FALSE, status |-> 0, body |-> <<>>, read |-> FALSE,
   extracted |-> <<>>, ret |-> Return(<<>>, NoErr), wrote |-> <<>>]

InitWith(ids) ==
  /\ provider = NoProvider
  /\ lastNew = [called |-> FALSE, apiKey |-> "", p |-> NoProvider, err |-> NoErr]
  /\ nameRet = ""
  /\ calls = [c \in ids |-> IdleCall]

Init == InitWith(1..NumCalls)

\* NewClaudeProvider(apiKey), by a caller that has no instance yet
New(apiKey) ==
  /\ ~provider.set
  /\ LET r == NewClaudeProvider(apiKey)
     IN /\ lastNew' = [called |-> TRUE, apiKey |-> apiKey, p |-> r.p, err |-> r.err]
        /\ provider' = r.p
  /\ UNCHANGED <<nameRet, calls>>

\* p.Name()
NameCall ==
  /\ provider.set
  /\ nameRet' = Name(provider)
  /\ UNCHANGED <<provider, lastNew, calls>>

\* a request built by http.NewRequest: no context attached
BuildRequestNoContext(p) ==
  [set |-> TRUE, model |-> p.model, apiKey |-> p.apiKey, maxTokens |-> MaxTokens,
   ctx |-> FALSE]

\* a request that names a model of its own
BuildRequestOwnModel(p) ==
  [set |-> TRUE, model |-> "claude-3-opus", apiKey |-> p.apiKey,
   maxTokens |-> MaxTokens, ctx |-> TRUE]

\* lines 67 to 87: the request, with the caller's context attached by
\* http.NewRequestWithContext
BuildRequest(p) ==
  [set |-> TRUE, model |-> p.model, apiKey |-> p.apiKey, maxTokens |-> MaxTokens,
   ctx |-> TRUE]

\* the call returns (nil, err); the connection is given up
ReturnErr(call, err) ==
  [call EXCEPT !.pc = "done", !.ret = Return(<<>>, err), !.hdrIn = FALSE,
               !.bodyIn = FALSE]

\* a failed send tried once more
AfterSendErrorRetry(call, cause) ==
  IF call.sent < 2 THEN [call EXCEPT !.sent = @ + 1]
  ELSE ReturnErr(call, Errorf("failed to send request", 0, <<>>, cause))

\* line 91 to 93: client.Do returned an error
AfterSendError(call, cause) ==
  ReturnErr(call, Errorf("failed to send request", 0, <<>>, cause))

\* line 97 to 99: io.ReadAll returned an error
AfterReadError(call, cause) ==
  ReturnErr(call, Errorf("failed to read response", 0, <<>>, cause))

\* p.Verify(ctx, ...) up to the call of client.Do (line 64 to 90).
\* http.NewRequestWithContext fails on a nil context; the transport sends
\* nothing for a context that is already done.
Verify(c, ctx) ==
  /\ provider.set
  /\ calls[c].pc = "idle"
  /\ calls' = [calls EXCEPT ![c] =
       IF ctx = "nil"
       THEN ReturnErr([@ EXCEPT !.ctx = ctx],
                      Errorf("failed to create request", 0, <<>>, "nil Context"))
       ELSE LET req == BuildRequest(provider)
            IN [@ EXCEPT !.ctx = ctx, !.req = req, !.pc = "Do", !.sent = @ + 1,
                         !.onWire = ~(req.ctx /\ ctx = "canceled")]]
  /\ UNCHANGED <<provider, lastNew, nameRet>>

\* the caller cancels the context of a call that has not returned
Cancel(c) ==
  /\ calls[c].pc \in {"Do", "ReadAll"}
  /\ calls[c].ctx = "live"
  /\ calls' = [calls EXCEPT ![c].ctx = "canceled"]
  /\ UNCHANGED <<provider, lastNew, nameRet>>

\* the response headers reach the transport (which closes the connection
\* once it finds the context done: nothing arrives after that)
RemoteHeaders(c) ==
  /\ calls[c].pc = "Do" /\ calls[c].onWire /\ ~calls[c].hdrIn
  /\ calls[c].ctx = "live"
  /\ calls' = [calls EXCEPT ![c].hdrIn = TRUE]
  /\ UNCHANGED <<provider, lastNew, nameRet>>

\* client.Do fails: the connection cannot be made, or breaks (with the
\* context done, the transport reports the context's error instead)
DoFails(c) ==
  /\ calls[c].pc = "Do" /\ calls[c].onWire /\ ~calls[c].hdrIn
  /\ calls[c].ctx = "live"
  /\ calls' = [calls EXCEPT ![c] = AfterSendError(@, "network")]
  /\ UNCHANGED <<provider, lastNew, nameRet>>

\* client.Do returns the context's error: the transport finds the
\* request's context done
DoAborts(c) ==
  /\ calls[c].pc = "Do" /\ calls[c].req.ctx /\ calls[c].ctx = "canceled"
  /\ calls' = [calls EXCEPT ![c] = AfterSendError(@, "context canceled")]
  /\ UNCHANGED <<provider, lastNew, nameRet>>

\* client.Do returns the response whose headers have arrived (the
\* transport takes it even if the context is done by now: its select picks
\* either); the status is read here
DoReturns(c, statuses) ==
  /\ calls[c].pc = "Do" /\ calls[c].hdrIn
  /\ \E s \in statuses :
       calls' = [calls EXCEPT ![c].status = s, ![c].pc = "ReadAll"]
  /\ UNCHANGED <<provider, lastNew, nameRet>>

\* the whole body reaches the transport's buffer
RemoteBody(c) ==
  /\ calls[c].pc = "ReadAll" /\ ~calls[c].bodyIn
  /\ calls[c].ctx = "live"
  /\ calls' = [calls EXCEPT ![c].bodyIn = TRUE]
  /\ UNCHANGED <<provider, lastNew, nameRet>>

\* io.ReadAll fails: the connection breaks before the body is complete
ReadFails(c) ==
  /\ calls[c].pc = "ReadAll" /\ ~calls[c].bodyIn
  /\ calls[c].ctx = "live"
  /\ calls' = [calls EXCEPT ![c] = AfterReadError(@, "network")]
  /\ UNCHANGED <<provider, lastNew, nameRet>>

\* io.ReadAll returns the context's error
ReadAborts(c) ==
  /\ calls[c].pc = "ReadAll" /\ calls[c].req.ctx /\ calls[c].ctx = "canceled"
  /\ calls' = [calls EXCEPT ![c] = AfterReadError(@, "context canceled")]
  /\ UNCHANGED <<provider, lastNew, nameRet>>

\* the call, returned with the outcome o of handling the reply; the
\* deferred resp.Body.Close() gives the connection up
Finish(call, reply, o) ==
  [call EXCEPT !.body = reply.body, !.wrote = reply.wrote, !.read = TRUE,
               !.extracted = o.extracted, !.ret = o.ret, !.pc = "done",
               !.hdrIn = FALSE, !.bodyIn = FALSE]

\* io.ReadAll returns the body that has arrived (buffered bytes are read
\* even if the context is done by now), and Verify runs to its end
ReadAllReturns(c, replies) ==
  /\ calls[c].pc = "ReadAll" /\ calls[c].bodyIn
  /\ \E reply \in replies :
       calls' = [calls EXCEPT ![c] =
                   Finish(@, reply, HandleResponse(calls[c].status, reply.body))]
  /\ UNCHANGED <<provider, lastNew, nameRet>>

Next ==
  \/ \E k \in Keys : New(k)
  \/ NameCall
  \/ \E c \in DOMAIN calls : \E ctx \in {"nil", "live", "canceled"} : Verify(c, ctx)
  \/ \E c \in DOMAIN calls : Cancel(c)
  \/ \E c \in DOMAIN calls : RemoteHeaders(c)
  \/ \E c \in DOMAIN calls : DoFails(c)
  \/ \E c \in DOMAIN calls : DoAborts(c)
  \/ \E c \in DOMAIN calls : DoReturns(c, BasicStatuses)
  \/ \E c \in DOMAIN calls : RemoteBody(c)
  \/ \E c \in DOMAIN calls : ReadFails(c)
  \/ \E c \in DOMAIN calls : ReadAborts(c)
  \/ \E c \in DOMAIN calls : ReadAllReturns(c, BasicReplies)

Spec == Init /\ [][Next]_vars

\* one call, and everything the remote side may send
WireInit == InitWith({1})

WireNext ==
  \/ \E k \in Keys : New(k)
  \/ NameCall
  \/ \E c \in DOMAIN calls : \E ctx \in {"nil", "live", "canceled"} : Verify(c, ctx)
  \/ \E c \in DOMAIN calls : Cancel(c)
  \/ \E c \in DOMAIN calls : RemoteHeaders(c)
  \/ \E c \in DOMAIN calls : DoFails(c)
  \/ \E c \in DOMAIN calls : DoAborts(c)
  \/ \E c \in DOMAIN calls : DoReturns(c, AllStatuses)
  \/ \E c \in DOMAIN calls : RemoteBody(c)
  \/ \E c \in DOMAIN calls : ReadFails(c)
  \/ \E c \in DOMAIN calls : ReadAborts(c)
  \/ \E c \in DOMAIN calls : ReadAllReturns(c, AllReplies)

WireSpec == WireInit /\ [][WireNext]_vars

\* a canceled context makes client.Do and io.ReadAll return: the transport
\* watches the context of the request it is serving
WireFair ==
  /\ WireSpec
  /\ \A c \in {1} : WF_vars(DoAborts(c)) /\ WF_vars(ReadAborts(c))

(***************************************************************************)
(* The claims.                                                             *)
(***************************************************************************)
Done(call) == call.pc = "done"
Failed(call) == call.ret.err # NoErr
StatusError(call) == call.ret.err.kind = "API error (status)"
CancelError(call) == call.ret.err.cause = "context canceled"
\* the HTTP success statuses
IsSuccess(status) == status \in 200..299

\* s holds sub as a substring
Contains(s, sub) ==
  \E i \in 0..(Len(s) - Len(sub)) : SubSeq(s, i + 1, i + Len(sub)) = sub

\* C1: NewClaudeProvider returns an error, and no client, exactly when the
\* key is empty; for any other key it returns a client that holds the key,
\* and no error; so no client holds an empty key.
C1_ConstructorChecksKey ==
  /\ lastNew.called =>
       /\ lastNew.err # NoErr <=> lastNew.apiKey = ""
       /\ lastNew.err # NoErr => ~lastNew.p.set
       /\ lastNew.err = NoErr => lastNew.p.set /\ lastNew.p.apiKey = lastNew.apiKey
  /\ provider.set => provider.apiKey # ""

C1_Witness ==
  /\ lastNew.called /\ lastNew.apiKey = ""
  /\ lastNew.err.kind = "API key is required" /\ ~provider.set

\* C2: for a response with status 200, no error field and a first content
\* item whose text is a valid payload, bare or in a ```json fence, Verify
\* returns the result the payload encodes, the same in both wrappings.
C2_FenceIsOptional ==
  \A c \in DOMAIN calls :
    LET call == calls[c]
    IN (/\ Done(call) /\ call.read /\ call.status = StatusOK
        /\ call.wrote # <<>> /\ call.wrote[1].wrap \in {"bare", "fenced"})
       => call.ret = Return(<<call.wrote[1].r>>, NoErr)

\* C3, as claimed: a response with a success status (2xx) never gets the
\* error that carries the status.
C3_NoStatusErrorOnSuccess ==
  \A c \in DOMAIN calls :
    (Done(calls[c]) /\ calls[c].read /\ IsSuccess(calls[c].status))
      => ~StatusError(calls[c])

\* what Verify does with a body it has parsed into u, once past the checks
\* of the status and of the error field
PastChecks(call, u) ==
  IF Len(u.val.content) = 0
  THEN call.ret.err.kind = "empty response from API" /\ call.extracted = <<>>
  ELSE call.extracted = <<u.val.content[1].text>>

\* C3, amended: a response with status 200 never gets the error that
\* carries the status, and when its envelope parses and has no error field
\* Verify goes on to the content check and the extraction.
C3_NoStatusErrorOn200 ==
  \A c \in DOMAIN calls :
    LET call == calls[c]
    IN (Done(call) /\ call.read /\ call.status = StatusOK)
       => /\ ~StatusError(call)
          /\ LET u == UnmarshalResponse(call.body)
             IN (u.ok /\ ~u.val.error.set) => PastChecks(call, u)

C3_Witness ==
  \E c \in DOMAIN calls :
    /\ Done(calls[c]) /\ calls[c].read /\ calls[c].status = StatusOK
    /\ calls[c].extracted # <<>> /\ ~Failed(calls[c])

\* C4: a response with a status that is no success status gets the error
\* that carries the status and the raw body, whatever the body is: never
\* the parse error, the provider's error or a result.
C4_StatusBeforeBody ==
  \A c \in DOMAIN calls :
    LET call == calls[c]
    IN (Done(call) /\ call.read /\ ~IsSuccess(call.status))
       => /\ call.ret = Return(<<>>, Errorf("API error (status)", call.status,
                                             call.body, "none"))
          /\ call.extracted = <<>>

C4_Witness ==
  \E c \in DOMAIN calls :
    /\ Done(calls[c]) /\ calls[c].read /\ calls[c].status = 500
    /\ calls[c].body = <<QT, "oops", QT>>
    /\ StatusError(calls[c]) /\ calls[c].ret.err.text = <<QT, "oops", QT>>

\* C5: a response whose envelope holds an error field makes Verify fail
\* with an error that holds the provider's message, whether the content
\* list is empty or not: nothing is extracted and the error is not the one
\* for an empty response.  (With a status other than 200 the error holds
\* the message as part of the raw body.)
C5_ProviderErrorFirst ==
  \A c \in DOMAIN calls :
    LET call == calls[c]
        u == UnmarshalResponse(call.body)
    IN (Done(call) /\ call.read /\ u.ok /\ u.val.error.set)
       => /\ Failed(call) /\ call.ret.result = <<>> /\ call.extracted = <<>>
          /\ call.ret.err.kind # "empty response from API"
          /\ IF call.status = StatusOK
             THEN call.ret.err.kind = "API error"
                  /\ call.ret.err.text = u.val.error.message
             ELSE Contains(call.ret.err.text, Escape(u.val.error.message))

C5_Witness ==
  \E c \in DOMAIN calls :
    /\ Done(calls[c]) /\ calls[c].read /\ calls[c].status = StatusOK
    /\ Len(UnmarshalResponse(calls[c].body).val.content) > 0
    /\ calls[c].ret.err.kind = "API error"
    /\ calls[c].ret.err.text = <<"rate", SP, "limited">>

C7_ResultXorError ==
  \A c \in DOMAIN calls :
    LET call == calls[c]
    IN /\ Len(call.ret.result) <= 1
       /\ Done(call) => (call.ret.result # <<>>) # Failed(call)
       /\ ~Done(call) => call.ret = Return(<<>>, NoErr)

\* the payload has a field of the wrong kind: some of it decodes
C7_Witness ==
  \E c \in DOMAIN calls :
    /\ Done(calls[c]) /\ calls[c].read
    /\ calls[c].extracted = <<<<"{", QT, "notes", QT, ":", "8", "}">>>>
    /\ calls[c].ret.err.kind = "failed to parse verification result"
    /\ calls[c].ret.result = <<>>

\* C8, as claimed: a call whose context was canceled before the round trip
\* was over (the context of a call is canceled before it is made or while
\* it is in client.Do or io.ReadAll) returns the context's error and no
\* result.
C8_CancelAlwaysWins ==
  \A c \in DOMAIN calls :
    (Done(calls[c]) /\ calls[c].ctx = "canceled")
      => CancelError(calls[c]) /\ calls[c].ret.result = <<>>

\* C8, amended: a call whose context is canceled while it is in client.Do
\* or io.ReadAll returns in the end; it returns the context's error and no
\* result when the context was canceled before the request was sent, and
\* otherwise either that or what it makes of the response it has read.
C8_CancelEndsTheCall ==
  /\ [](\A c \in DOMAIN calls :
          (Done(calls[c]) /\ calls[c].ctx = "canceled")
            => /\ ~calls[c].onWire
                  => CancelError(calls[c]) /\ calls[c].ret.result = <<>>
               /\ CancelError(calls[c]) \/ calls[c].read)
  /\ \A c \in {1} :
       (calls[c].pc \in {"Do", "ReadAll"} /\ calls[c].ctx = "canceled")
         ~> Done(calls[c])

C8_Witness ==
  \E c \in DOMAIN calls :
    /\ Done(calls[c]) /\ calls[c].ctx = "canceled" /\ calls[c].onWire
    /\ calls[c].ret.err.kind = "failed to read response"
    /\ CancelError(calls[c]) /\ calls[c].ret.result = <<>>

\* C9: a call sends at most one request, and exactly one once the request
\* is built: no failure makes it send another.
C9_OneRequest ==
  \A c \in DOMAIN calls :
    /\ calls[c].sent <= 1
    /\ calls[c].req.set => calls[c].sent = 1
    /\ (Done(calls[c]) /\ ~calls[c].req.set) => calls[c].sent = 0

C9_Witness ==
  \E c \in DOMAIN calls :
    /\ Done(calls[c]) /\ calls[c].sent = 1
    /\ calls[c].ret.err.kind = "failed to send request"
    /\ calls[c].ret.err.cause = "network"

\* In every state: the instance holds a key and its model, Name returns
\* "claude", every request carries that key and that model, and two calls
\* that read the same status and body return the same.
C10_State ==
  /\ provider.set =>
       provider = [set |-> TRUE, apiKey |-> lastNew.apiKey, model |-> DefaultModel]
  /\ nameRet \in {"", "claude"}
  /\ \A c \in DOMAIN calls :
       calls[c].req.set => /\ calls[c].req.apiKey = provider.apiKey
                           /\ calls[c].req.model = provider.model
  /\ \A c, d \in DOMAIN calls :
       (/\ Done(calls[c]) /\ Done(calls[d]) /\ calls[c].read /\ calls[d].read
        /\ calls[c].status = calls[d].status /\ calls[c].body = calls[d].body)
       => calls[c].ret = calls[d].ret

\* C10: the instance keeps the key it was made with and its model, Name
\* returns "claude", every request carries that key and that model, and
\* two calls that read the same status and body return the same, whatever
\* the other calls on the instance do; no step of a call changes the
\* instance once it is made.
C10_ImmutableInstance ==
  /\ []C10_State
  /\ [][provider.set => provider' = provider]_vars

\* two calls are done, one with a result and one with an error, and Name
\* has been called
C10_Witness ==
  \E c, d \in DOMAIN calls :
    /\ Done(calls[c]) /\ ~Failed(calls[c])
    /\ Done(calls[d]) /\ Failed(calls[d]) /\ calls[d].read
    /\ nameRet = "claude"

=============================================================================
